---- MODULE Spec2Model ----
(***************************************************************************)
(* Model of the detection engine of monster_detector (src/detector.py)     *)
(* together with the configuration it reads (src/config.py) and the window *)
(* and detection thread that drive it (src/ui.py).                         *)
(*                                                                         *)
(* Numbers.  Correlation scores and the acceptance threshold are held in   *)
(* hundredths (the UI sets the threshold as value / 100.0).  Scale factors *)
(* are held in sixteenths: every entry of config.SCALES is a multiple of   *)
(* 1/16, so w * scale is exact in binary floating point and int() of it is *)
(* the truncation of (w * numerator) / 16.  A confidence and a reported    *)
(* scale are rationals [num, den]; two of them are compared by cross       *)
(* multiplication.  The sub-pixel corner coordinates produced by           *)
(* cv2.perspectiveTransform are held in halves.                            *)
(***************************************************************************)
EXTENDS Integers, Sequences, FiniteSets, TLC

VARIABLES
    TEMPLATE_THRESHOLD,   \* config.TEMPLATE_THRESHOLD, in hundredths
    USE_CENTER_POSITION,  \* config.USE_CENTER_POSITION
    SCALES,               \* config.SCALES, numerators over ScaleDen
    template,             \* the engine's template state: [w, h, keypoints, enhanced]
    pc,                   \* position of the detect call
    scene,                \* battle_scene of the call in progress: [w, h]
    use_template,         \* argument of detect
    use_orb,              \* argument of detect
    trace,                \* what each iteration of the scale sweep did
    template_result,      \* value returned by _template_matching_multiscale
    orb_locals,           \* locals of _orb_matching at its return
    orb_result,           \* value returned by _orb_matching
    results,              \* the list `results` of detect
    result,               \* value returned by detect
    exception,            \* exception that left detect, None if none did
    USE_PREPROCESSING_ENHANCEMENT,  \* config.USE_PREPROCESSING_ENHANCEMENT
    scene_enhancement,    \* use_full of the _preprocess_image call on the scene
    vis_image,            \* image returned by visualize_detection
    detector,             \* MonsterDetectorUI.detector
    roi,                  \* MonsterDetectorUI.roi
    is_detecting,         \* MonsterDetectorUI.is_detecting
    detection_thread,     \* MonsterDetectorUI.detection_thread
    btn_start,            \* whether MonsterDetectorUI.btn_start is enabled
    log_error,            \* the last error entry of the UI's log
    btn_stop,             \* whether MonsterDetectorUI.btn_stop is enabled
    gui,                  \* where the GUI thread is: in its event loop, waiting
                          \* in stop_detection (from the button or from
                          \* closeEvent), or past closeEvent
    capture_initialized,  \* ScreenCapture._initialized
    overlay,              \* the ROIOverlayWidget of a selection in progress
    capture,              \* the last ScreenCapture.capture_roi call and what it returned
    POSITION_OFFSET,      \* config.POSITION_OFFSET_X, config.POSITION_OFFSET_Y
    signals,              \* result_ready emissions queued for the GUI thread
    last_monster_position,   \* MonsterDetectorUI.last_monster_position, <<>> for None
    total_detections,        \* MonsterDetectorUI.total_detections
    successful_detections,   \* MonsterDetectorUI.successful_detections
    previous              \* history: an earlier detect call and its result

vars == <<TEMPLATE_THRESHOLD, USE_CENTER_POSITION, SCALES, template, pc, scene,
          use_template, use_orb, trace, template_result, orb_locals,
          orb_result, results, result, exception,
          USE_PREPROCESSING_ENHANCEMENT, scene_enhancement, vis_image,
          detector, roi, is_detecting, detection_thread, btn_start, log_error,
          btn_stop, gui, capture_initialized, overlay, capture,
          POSITION_OFFSET, signals,
          last_monster_position, total_detections, successful_detections,
          previous>>

ui_vars == <<detector, roi, is_detecting, detection_thread, btn_start, log_error,
             btn_stop, gui, capture_initialized, overlay, capture, signals,
             last_monster_position, total_detections, successful_detections>>

config_vars == <<TEMPLATE_THRESHOLD, USE_CENTER_POSITION, SCALES,
                 USE_PREPROCESSING_ENHANCEMENT, POSITION_OFFSET>>

(***************************************************************************)
(* Representation constants and program constants                          *)
(***************************************************************************)
ScaleDen == 16
PeakDen == 100
HalfDen == 2
MIN_DIM == 8
ORB_MIN_MATCHES == 10
DEFAULT_THRESHOLD == 65

(***************************************************************************)
(* Bounds of the model                                                     *)
(***************************************************************************)
MaxScales == 2

\* results the window counts before the statistics are reset
MaxDetections == 1

\* signals of the thread the GUI thread has not handled yet
MaxPending == 1

\* Python's None
None == [none |-> TRUE]

\* scale factors a list may hold: 0.5, 0.6875, 1.0, 1.5
ScaleSet == {8, 11, 16, 24}

RECURSIVE SeqsUpTo(_, _)
SeqsUpTo(S, n) ==
    IF n = 0 THEN {<<>>}
    ELSE LET shorter == SeqsUpTo(S, n - 1)
         IN  shorter \cup {Append(s, x) : s \in {t \in shorter : Len(t) = n - 1}, x \in S}

ScaleLists == SeqsUpTo(ScaleSet, MaxScales)

\* thresholds the spin box can set (range 50..100), in hundredths
ThresholdSet == {65, 80}

\* template images an engine can be built from, with the number of keypoints
\* ORB finds in them (none in a sprite smaller than the ORB patch)
TemplateSet == {[w |-> 16, h |-> 12, keypoints |-> 20],
                [w |-> 8, h |-> 8, keypoints |-> 0]}

\* frames a caller can pass to detect: three that hold the template at some
\* scale, one smaller than every resized template, one without pixels
SceneSet == {[w |-> 24, h |-> 18], [w |-> 16, h |-> 20], [w |-> 24, h |-> 16],
             [w |-> 10, h |-> 7], [w |-> 0, h |-> 0]}

\* peak values cv2.minMaxLoc can report for the two measures, in hundredths;
\* TM_CCORR_NORMED of two 8-bit images is never negative
CoeffPeaks == {-10, 65, 80}
CorrPeaks == {0, 65, 80}

(***************************************************************************)
(* Arithmetic helpers                                                      *)
(***************************************************************************)
\* Python int() of the rational n / d (d > 0): truncation toward zero
Trunc(n, d) == IF n >= 0 THEN n \div d ELSE -((-n) \div d)

Rat(n, d) == [num |-> n, den |-> d]
RatLess(a, b) == a.num * b.den < b.num * a.den
RatEq(a, b) == a.num * b.den = b.num * a.den

Max2(a, b) == IF a >= b THEN a ELSE b
SetMax(S) == CHOOSE x \in S : \A y \in S : y <= x
SetMin(S) == CHOOSE x \in S : \A y \in S : x <= y

(***************************************************************************)
(* DetectionResult                                                         *)
(***************************************************************************)
DetectionResult(found, confidence, scale, position, size, method) ==
    [found |-> found, confidence |-> confidence, scale |-> scale,
     position |-> position, size |-> size, method |-> method]

\* a not-found result that keeps a matcher's name
NotFound_KeepsMethod ==
    DetectionResult(FALSE, Rat(0, 1), Rat(0, 1), <<0, 0>>, <<0, 0>>, "template")

NotFound ==
    DetectionResult(FALSE, Rat(0, 1), Rat(0, 1), <<0, 0>>, <<0, 0>>, "none")

(***************************************************************************)
(* _preprocess_image and __init__                                          *)
(***************************************************************************)
\* cv2.cvtColor raises cv2.error on an image without pixels
PreprocessRaises(image) == image.w = 0 \/ image.h = 0

\* use_full: the argument use_enhancement if given, else the config flag;
\* the optional argument is <<>> when it is left at None, <<b>> when passed
UseFull(use_enhancement, config_flag) ==
    IF use_enhancement # <<>> THEN use_enhancement[1] ELSE config_flag

\* the template state __init__ builds from a decoded image: the processed
\* template (its size and the enhancement it was processed with) and the
\* keypoints extracted from it
MonsterDetector(image, config_flag) ==
    [w |-> image.w, h |-> image.h, keypoints |-> image.keypoints,
     enhanced |-> UseFull(<<>>, config_flag)]

\* template files a user can pick: one that decodes to each template image,
\* and one that neither cv2.imread nor PIL can open
TemplateFiles ==
    [path \in {"monster.png", "icon.png", "missing.png"} |->
        CASE path = "monster.png" -> [w |-> 16, h |-> 12, keypoints |-> 20]
          [] path = "icon.png" -> [w |-> 8, h |-> 8, keypoints |-> 0]
          [] OTHER -> None]

\* _load_template: the decoded image, None when both decoders fail
LoadTemplateImage(template_path) == TemplateFiles[template_path]

\* a constructor that hands out the instance although the template is missing
NewMonsterDetector_Partial(template_path, config_flag) ==
    LET template_original == LoadTemplateImage(template_path)
    IN  [self |-> IF template_original = None
                  THEN [w |-> 0, h |-> 0, keypoints |-> 0, enhanced |-> config_flag]
                  ELSE MonsterDetector(template_original, config_flag),
         raised |-> None]

\* MonsterDetector(template_path): the new instance, or the error that
\* leaves the constructor and no instance
NewMonsterDetector(template_path, config_flag) ==
    LET template_original == LoadTemplateImage(template_path)
    IN  IF template_original = None
        THEN [self |-> None,
              raised |-> [type |-> "FileNotFoundError",
                          raised_by |-> "MonsterDetector.__init__"]]
        ELSE [self |-> MonsterDetector(template_original, config_flag),
              raised |-> None]

(***************************************************************************)
(* _template_matching_multiscale                                           *)
(***************************************************************************)
\* new_w = int(w * scale), new_h = int(h * scale)
ResizedDim(dim, scale) == Trunc(dim * scale, ScaleDen)

\* a skip test that also drops the scales exactly at the limits
SkipScale_Inclusive(new_w, new_h, sc) ==
    new_w <= MIN_DIM \/ new_h <= MIN_DIM \/ new_w >= sc.w \/ new_h >= sc.h

\* the scales the sweep ignores (too small, or larger than the scene)
SkipScale(new_w, new_h, sc) ==
    new_w < MIN_DIM \/ new_h < MIN_DIM \/ new_w > sc.w \/ new_h > sc.h

\* A frame whose pixels are given carries, as its content, what the OpenCV
\* calls compute from those pixels (they are functions of their inputs); for
\* a frame given by its size only, every outcome is possible.
HasContent(sc) == "content" \in DOMAIN sc

\* What cv2.matchTemplate followed by cv2.minMaxLoc can report for the two
\* measures on one resized template: a peak value and the place of the peak
\* for each.  The result map has sc.w - new_w + 1 columns and
\* sc.h - new_h + 1 rows; the two measures peak at its opposite corners.
MatchOutcomes(sc, new_w, new_h) ==
    LET origin == <<0, 0>>
        far == <<sc.w - new_w, sc.h - new_h>>
    IN  {[coeff |-> [max_val |-> a, max_loc |-> origin],
          corr  |-> [max_val |-> b, max_loc |-> far]] :
            a \in IF HasContent(sc) THEN {sc.content.coeff} ELSE CoeffPeaks,
            b \in IF HasContent(sc) THEN {sc.content.corr} ELSE CorrPeaks}

\* `if max_val > best_match_val` of the loop over the two methods
BetterMatch(max_val, best_match_val) == max_val > best_match_val

\* a loop that only tries the first method
BestOfMethods_FirstOnly(m) ==
    IF m.coeff.max_val > 0
    THEN [best_match_val |-> m.coeff.max_val, best_match_loc |-> m.coeff.max_loc]
    ELSE [best_match_val |-> 0, best_match_loc |-> None]

\* the loop `for method in methods`, from best_match_val = 0, best_match_loc = None
BestOfMethods(m) ==
    LET start == [best_match_val |-> 0, best_match_loc |-> None]
        Step(b, r) == IF BetterMatch(r.max_val, b.best_match_val)
                      THEN [best_match_val |-> r.max_val, best_match_loc |-> r.max_loc]
                      ELSE b
    IN  Step(Step(start, m.coeff), m.corr)

\* an update rule that forgets the best score so far: the last passing scale wins
AcceptsPeak_LastPassing(max_val, best_confidence, threshold) ==
    max_val > 0 /\ max_val >= threshold

\* an update rule without the threshold test
AcceptsPeak_NoThreshold(max_val, best_confidence, threshold) ==
    max_val > best_confidence

\* an update rule that lets an equal score replace the best so far
AcceptsPeak_OrEqual(max_val, best_confidence, threshold) ==
    max_val >= best_confidence /\ max_val > 0 /\ max_val >= threshold

\* `if max_val > best_confidence: if max_val >= config.TEMPLATE_THRESHOLD:`
AcceptsPeak(max_val, best_confidence, threshold) ==
    max_val > best_confidence /\ max_val >= threshold

\* a position to which the matcher adds the calibration offsets
TemplatePosition_WithOffset(max_loc, new_w, new_h, center) ==
    IF center
    THEN <<max_loc[1] + (new_w \div 2) + POSITION_OFFSET[1],
           max_loc[2] + (new_h \div 2) + POSITION_OFFSET[2]>>
    ELSE <<max_loc[1] + POSITION_OFFSET[1], max_loc[2] + POSITION_OFFSET[2]>>

\* position of a template hit: centre of the rectangle, or its top-left corner
TemplatePosition(max_loc, new_w, new_h, center) ==
    IF center
    THEN <<max_loc[1] + (new_w \div 2), max_loc[2] + (new_h \div 2)>>
    ELSE max_loc

\* one iteration of `for scale in config.SCALES` that was not skipped, given
\* the outcome m of the correlation step
ScaleIteration(scale, new_w, new_h, m, acc, threshold, center) ==
    LET best == BestOfMethods(m)
        max_val == best.best_match_val
        max_loc == best.best_match_loc
        hit == AcceptsPeak(max_val, acc.best_confidence, threshold)
    IN  [acc |-> IF hit
                 THEN [best_confidence |-> max_val,
                       best_result |->
                           DetectionResult(TRUE, Rat(max_val, PeakDen),
                                           Rat(scale, ScaleDen),
                                           TemplatePosition(max_loc, new_w, new_h, center),
                                           <<new_w, new_h>>, "template")]
                 ELSE acc,
         entry |-> [scale |-> scale, new_w |-> new_w, new_h |-> new_h,
                    resized |-> TRUE, m |-> m,
                    max_val |-> max_val, max_loc |-> max_loc, recorded |-> hit]]

SkippedEntry(scale, new_w, new_h) ==
    [scale |-> scale, new_w |-> new_w, new_h |-> new_h,
     resized |-> FALSE, m |-> None,
     max_val |-> None, max_loc |-> None, recorded |-> FALSE]

\* The sweep from the i-th entry of the scale list on: the set of its possible
\* final states [acc, trace], one for every choice of correlation outcomes.
RECURSIVE TemplateSweep(_, _, _, _, _, _, _, _)
TemplateSweep(scales, i, acc, tr, tmpl, sc, threshold, center) ==
    IF i > Len(scales) THEN {[acc |-> acc, trace |-> tr]}
    ELSE LET scale == scales[i]
             new_w == ResizedDim(tmpl.w, scale)
             new_h == ResizedDim(tmpl.h, scale)
         IN  IF SkipScale(new_w, new_h, sc)
             THEN TemplateSweep(scales, i + 1, acc,
                                Append(tr, SkippedEntry(scale, new_w, new_h)),
                                tmpl, sc, threshold, center)
             ELSE UNION {LET it == ScaleIteration(scale, new_w, new_h, m, acc,
                                                  threshold, center)
                         IN  TemplateSweep(scales, i + 1, it.acc,
                                           Append(tr, it.entry),
                                           tmpl, sc, threshold, center) :
                         m \in MatchOutcomes(sc, new_w, new_h)}

\* best_result = None, best_confidence = 0, then the loop
TemplateMatchingMultiscale(scales, tmpl, sc, threshold, center) ==
    TemplateSweep(scales, 1, [best_confidence |-> 0, best_result |-> None],
                  <<>>, tmpl, sc, threshold, center)

(***************************************************************************)
(* _orb_matching                                                           *)
(***************************************************************************)
\* numbers of keypoints orb.detectAndCompute can find in a scene
SceneKeypointCounts == {0, 9, 10, 20}

\* numbers of cross-checked matches bf_matcher.match can return
MatchCounts == {9, 10, 20}

\* numbers of inliers the RANSAC mask can mark
InlierCounts == {4, 8, 13, 20}

\* quadrilaterals cv2.perspectiveTransform can map the template corners to;
\* corner coordinates in halves of a pixel
QuadSet ==
    { <<<<4, 6>>, <<36, 6>>, <<36, 30>>, <<4, 30>>>>,
      <<<<-3, -1>>, <<21, 0>>, <<22, 19>>, <<-2, 18>>>>,
      <<<<-15, -7>>, <<-1, -6>>, <<1, 5>>, <<-14, 4>>>> }

\* What the OpenCV calls of _orb_matching can return for one scene:
\* keypoints found, whether bf_matcher.match raised, matches found (never
\* more than either image has keypoints, none if the call raised), whether
\* cv2.findHomography raised, found no transform or found one, the number of inliers
\* of its mask (one entry per match, so never more than there are matches)
\* and the transformed template corners.  What a call that did not produce
\* anything would have produced is not varied.
OrbOutcomes(tmpl) ==
    {o \in {[keypoints |-> n, match_exc |-> me, matches |-> k, homography |-> hm,
              inliers |-> c, corners |-> q] :
                n \in SceneKeypointCounts,
                me \in {"none", "cv2.error"},
                k \in {x \in MatchCounts \cup {0} : x <= tmpl.keypoints},
                hm \in {"found", "none", "cv2.error"},
                c \in InlierCounts, q \in QuadSet} :
        /\ o.matches <= o.keypoints
        /\ o.match_exc # "none" => (o.matches = 0 /\ o.homography = "none")
        /\ o.homography = "found" => o.inliers <= o.matches
        /\ o.homography # "found"
              => /\ o.inliers = SetMin(InlierCounts)
                 /\ o.corners = <<<<4, 6>>, <<36, 6>>, <<36, 30>>, <<4, 30>>>>}

\* the outcomes for the scene sc: the one its content fixes, if it has
\* content; a template with fewer keypoints than the content's matches gets
\* no match from it
SceneOrbOutcomes(tmpl, sc) ==
    IF HasContent(sc)
    THEN LET c == sc.content.orb
         IN  {o \in OrbOutcomes(tmpl) :
                 IF c.matches <= tmpl.keypoints
                 THEN o = c
                 ELSE /\ o.keypoints = c.keypoints
                      /\ o.match_exc = "none"
                      /\ o.matches = 0
                      /\ o.homography = "none"}
    ELSE OrbOutcomes(tmpl)

\* int(np.min(coords)), int(np.max(coords)) of one coordinate of the corners
CoordMin(q, axis) == Trunc(SetMin({q[i][axis] : i \in 1..4}), HalfDen)
CoordMax(q, axis) == Trunc(SetMax({q[i][axis] : i \in 1..4}), HalfDen)

\* a centre computed with a division that truncates toward zero
OrbPosition_Truncating(x_min, x_max, y_min, y_max, center) ==
    IF center
    THEN <<Trunc(x_min + x_max, 2), Trunc(y_min + y_max, 2)>>
    ELSE <<x_min, y_min>>

\* position of a feature hit: centre of the bounding box, or its top-left corner
OrbPosition(x_min, x_max, y_min, y_max, center) ==
    IF center
    THEN <<(x_min + x_max) \div 2, (y_min + y_max) \div 2>>
    ELSE <<x_min, y_min>>

\* a ratio taken the wrong way round
OrbConfidence_Inverted(inliers, matches) == Rat(matches, inliers)

\* confidence = inliers / len(matches)
OrbConfidence(inliers, matches) == Rat(inliers, matches)

\* an engine that stores the scene's keypoints over its template's
SelfAfterOrb_StoresSceneKeypoints(tmpl, scene_keypoints) ==
    [tmpl EXCEPT !.keypoints = scene_keypoints]

\* orb.detectAndCompute(scene_processed, None) binds the locals
\* scene_keypoints and scene_descriptors; the engine's own attributes are
\* not assigned anywhere in _orb_matching
SelfAfterOrb(tmpl, scene_keypoints) == tmpl

\* a count that accepts one match too few
TooFew_OffByOne(count) == count < ORB_MIN_MATCHES - 1

\* `len(...) < config.ORB_MIN_MATCHES`
TooFew(count) == count < ORB_MIN_MATCHES

\* an except clause that catches nothing
Caught_Nothing(exc) == FALSE

\* `except cv2.error:` around bf_matcher.match and cv2.findHomography
Caught(exc) == exc = "cv2.error"

\* _orb_matching on the scene sc, given the outcome o of its OpenCV calls:
\* the value returned, the exception raised if any, and the locals the
\* function reached (`reached` names the statement it ended at)
OrbMatching(o, tmpl, sc, center, config_flag) ==
    LET Raised(exc, call) == [type |-> exc, raised_by |-> call]
        unreached == [reached |-> "keypoints", use_full |-> UseFull(<<>>, config_flag),
                      scene_keypoints |-> o.keypoints,
                      match_exc |-> None, matches |-> None,
                      homography |-> None, inliers |-> None,
                      x_min |-> None, x_max |-> None, y_min |-> None, y_max |-> None]
    IN
    IF PreprocessRaises(sc)
    THEN [ret |-> None, raised |-> Raised("cv2.error", "cv2.cvtColor"), locals |-> None]
    ELSE IF o.keypoints = 0 \/ TooFew(o.keypoints)
    THEN [ret |-> None, raised |-> None, locals |-> unreached]
    ELSE IF o.match_exc # "none"
    THEN [ret |-> None,
          raised |-> IF Caught(o.match_exc) THEN None
                     ELSE Raised(o.match_exc, "bf_matcher.match"),
          locals |-> [unreached EXCEPT !.reached = "match", !.match_exc = o.match_exc]]
    ELSE IF TooFew(o.matches)
    THEN [ret |-> None, raised |-> None,
          locals |-> [unreached EXCEPT !.reached = "matches", !.match_exc = "none",
                                       !.matches = o.matches]]
    ELSE IF o.homography = "cv2.error"
    THEN [ret |-> None,
          raised |-> IF Caught(o.homography) THEN None
                     ELSE Raised(o.homography, "cv2.findHomography"),
          locals |-> [unreached EXCEPT !.reached = "homography", !.match_exc = "none",
                                       !.matches = o.matches,
                                       !.homography = o.homography]]
    ELSE IF o.homography = "none"
    THEN [ret |-> None, raised |-> None,
          locals |-> [unreached EXCEPT !.reached = "homography", !.match_exc = "none",
                                       !.matches = o.matches,
                                       !.homography = o.homography]]
    ELSE LET x_min == CoordMin(o.corners, 1)
             x_max == CoordMax(o.corners, 1)
             y_min == CoordMin(o.corners, 2)
             y_max == CoordMax(o.corners, 2)
             detected_w == x_max - x_min
             detected_h == y_max - y_min
             avg_scale == Rat(detected_w * tmpl.h + detected_h * tmpl.w,
                              2 * tmpl.w * tmpl.h)
         IN  [ret |-> DetectionResult(TRUE, OrbConfidence(o.inliers, o.matches),
                                      avg_scale,
                                      OrbPosition(x_min, x_max, y_min, y_max, center),
                                      <<detected_w, detected_h>>, "orb"),
              raised |-> None,
              locals |-> [reached |-> "result", use_full |-> UseFull(<<>>, config_flag),
                          scene_keypoints |-> o.keypoints,
                          match_exc |-> "none", matches |-> o.matches,
                          homography |-> "found", inliers |-> o.inliers,
                          x_min |-> x_min, x_max |-> x_max,
                          y_min |-> y_min, y_max |-> y_max]]

(***************************************************************************)
(* detect                                                                  *)
(***************************************************************************)
\* `if template_result:` -- a DetectionResult is always truthy, None is not
Truthy(r) == r # None

\* a comparison that lets a later element of equal key replace the best so far
KeyGreater_OrEqual(candidate, best) == ~RatLess(candidate.confidence, best.confidence)

\* the comparison max() makes between a later element and the best so far
KeyGreater(candidate, best) == RatLess(best.confidence, candidate.confidence)

\* max(results, key=lambda r: r.confidence) of a non-empty list
RECURSIVE MaxFrom(_, _, _)
MaxFrom(rs, i, best) ==
    IF i > Len(rs) THEN best
    ELSE MaxFrom(rs, i + 1, IF KeyGreater(rs[i], best) THEN rs[i] ELSE best)

\* taking the first candidate instead of the best one
MaxByConfidence_First(rs) == rs[1]

MaxByConfidence(rs) == MaxFrom(rs, 2, rs[1])

\* a not-found result with a sentinel position
BestResult_SentinelPosition(rs) ==
    IF rs = <<>>
    THEN DetectionResult(FALSE, Rat(0, 1), Rat(0, 1), <<-1, -1>>, <<0, 0>>, "none")
    ELSE MaxFrom(rs, 2, rs[1])

\* the tail of detect: `if not results: return DetectionResult(...)`, else max
BestResult(rs) == IF rs = <<>> THEN NotFound ELSE MaxByConfidence(rs)

(***************************************************************************)
(* visualize_detection                                                     *)
(***************************************************************************)
\* `result.confidence > 0.8`
HighConfidence(confidence) == RatLess(Rat(8, 10), confidence)

\* a rectangle whose corner is derived with the half size rounded up
Annotations_RoundedHalf(r, center) ==
    LET x == r.position[1]
        y == r.position[2]
        w == r.size[1]
        h == r.size[2]
        rect_x == IF center THEN x - ((w + 1) \div 2) ELSE x
        rect_y == IF center THEN y - ((h + 1) \div 2) ELSE y
    IN  [rectangle |-> <<rect_x, rect_y, rect_x + w, rect_y + h>>,
         color |-> IF HighConfidence(r.confidence) THEN "green" ELSE "yellow",
         cross |-> <<x, y>>,
         label |-> r.method]

\* what visualize_detection draws for a found result: the rectangle (its
\* corner derived from the position when the position is the centre), its
\* colour, the cross at the reported position and the label
Annotations(r, center) ==
    LET x == r.position[1]
        y == r.position[2]
        w == r.size[1]
        h == r.size[2]
        rect_x == IF center THEN x - (w \div 2) ELSE x
        rect_y == IF center THEN y - (h \div 2) ELSE y
    IN  [rectangle |-> <<rect_x, rect_y, rect_x + w, rect_y + h>>,
         color |-> IF HighConfidence(r.confidence) THEN "green" ELSE "yellow",
         cross |-> <<x, y>>,
         label |-> r.method]

\* drawing on the caller's buffer instead of a copy
VisualizeDetection_InPlace(battle_scene, r, center) ==
    LET drawn == [image |-> battle_scene,
                  annotations |-> IF r.found THEN Annotations(r, center) ELSE None]
    IN  [battle_scene |-> IF r.found THEN drawn ELSE battle_scene, vis_image |-> drawn]

\* visualize_detection: vis_image = battle_scene.copy(), returned as it is
\* when nothing was found, annotated otherwise; battle_scene is the caller's
\* buffer after the call
VisualizeDetection(battle_scene, r, center) ==
    [battle_scene |-> battle_scene,
     vis_image |-> [image |-> battle_scene,
                    annotations |-> IF r.found THEN Annotations(r, center) ELSE None]]

(***************************************************************************)
(* Initial state and actions                                               *)
(***************************************************************************)
\* the engine under test is constructed, nothing has been called yet
Init ==
    /\ TEMPLATE_THRESHOLD = DEFAULT_THRESHOLD
    /\ USE_CENTER_POSITION \in BOOLEAN
    /\ SCALES \in ScaleLists
    /\ USE_PREPROCESSING_ENHANCEMENT = TRUE
    /\ template \in {MonsterDetector(t, TRUE) : t \in TemplateSet}
    /\ pc = "idle"
    /\ scene = None
    /\ use_template = FALSE
    /\ use_orb = FALSE
    /\ trace = <<>>
    /\ template_result = None
    /\ orb_locals = None
    /\ orb_result = None
    /\ results = <<>>
    /\ result = None
    /\ exception = None
    /\ scene_enhancement = None
    /\ vis_image = None
    /\ detector = None
    /\ roi = None
    /\ is_detecting = FALSE
    /\ detection_thread = None
    /\ btn_start = FALSE
    /\ log_error = None
    /\ btn_stop = FALSE
    /\ gui = "ready"
    /\ capture_initialized = TRUE
    /\ overlay = None
    /\ capture = None
    /\ POSITION_OFFSET = <<0, 0>>
    /\ signals = <<>>
    /\ last_monster_position = <<>>
    /\ total_detections = 0
    /\ successful_detections = 0
    /\ previous = None

\* MonsterDetectorUI.on_threshold_changed (valueChanged fires only on a new
\* value); the handler runs between two detect calls
OnThresholdChanged(value) ==
    /\ pc = "idle"
    /\ value # TEMPLATE_THRESHOLD
    /\ TEMPLATE_THRESHOLD' = value
    /\ UNCHANGED <<USE_CENTER_POSITION, SCALES, USE_PREPROCESSING_ENHANCEMENT,
                   POSITION_OFFSET, template, pc, scene, use_template,
                   use_orb, trace, template_result, orb_locals, orb_result,
                   results, result, exception, scene_enhancement, vis_image,
                   ui_vars>>
    /\ UNCHANGED previous

\* a detect that keeps the list of candidates from call to call
DetectEnter_KeepsResults(sc, ut, uo) ==
    /\ pc = "idle"
    /\ pc' = "template_stage"
    /\ scene' = sc
    /\ use_template' = ut
    /\ use_orb' = uo
    /\ results' = results
    /\ trace' = <<>>
    /\ template_result' = None
    /\ orb_locals' = None
    /\ orb_result' = None
    /\ result' = None
    /\ exception' = None
    /\ scene_enhancement' = None
    /\ vis_image' = None
    /\ UNCHANGED <<config_vars, template, ui_vars>>

\* detect is entered: results = []
DetectEnter(sc, ut, uo) ==
    /\ pc = "idle"
    /\ pc' = "template_stage"
    /\ scene' = sc
    /\ use_template' = ut
    /\ use_orb' = uo
    /\ results' = <<>>
    /\ trace' = <<>>
    /\ template_result' = None
    /\ orb_locals' = None
    /\ orb_result' = None
    /\ result' = None
    /\ exception' = None
    /\ scene_enhancement' = None
    /\ vis_image' = None
    /\ UNCHANGED <<config_vars, template, ui_vars>>

\* a call of detect by a caller that keeps no record of earlier calls
DetectCall(sc, ut, uo) == DetectEnter(sc, ut, uo) /\ UNCHANGED previous

\* a sweep that tests the peaks against the threshold the module had when it
\* was imported
RunTemplateMatching_ThresholdAtImport ==
    /\ pc = "template_stage"
    /\ use_template
    /\ IF PreprocessRaises(scene)
       THEN /\ exception' = [type |-> "cv2.error", raised_by |-> "cv2.cvtColor"]
            /\ pc' = "idle"
            /\ UNCHANGED <<trace, template_result, scene_enhancement>>
       ELSE /\ \E o \in TemplateMatchingMultiscale(SCALES, template, scene,
                                                   DEFAULT_THRESHOLD,
                                                   USE_CENTER_POSITION) :
                  /\ trace' = o.trace
                  /\ template_result' = o.acc.best_result
            /\ scene_enhancement' =
                   [use_full |-> UseFull(<<USE_PREPROCESSING_ENHANCEMENT>>,
                                         USE_PREPROCESSING_ENHANCEMENT)]
            /\ pc' = "template_returned"
            /\ UNCHANGED exception
    /\ UNCHANGED <<config_vars, template, scene, use_template, use_orb,
                   orb_locals, orb_result, results, result, vis_image, ui_vars>>
    /\ UNCHANGED previous

\* `if use_template:` taken: _template_matching_multiscale preprocesses the
\* scene, which raises on an empty image, then runs the sweep and returns
RunTemplateMatching ==
    /\ pc = "template_stage"
    /\ use_template
    /\ IF PreprocessRaises(scene)
       THEN /\ exception' = [type |-> "cv2.error", raised_by |-> "cv2.cvtColor"]
            /\ pc' = "idle"
            /\ UNCHANGED <<trace, template_result, scene_enhancement>>
       ELSE /\ \E o \in TemplateMatchingMultiscale(SCALES, template, scene,
                                                   TEMPLATE_THRESHOLD,
                                                   USE_CENTER_POSITION) :
                  /\ trace' = o.trace
                  /\ template_result' = o.acc.best_result
            /\ scene_enhancement' =
                   [use_full |-> UseFull(<<USE_PREPROCESSING_ENHANCEMENT>>,
                                         USE_PREPROCESSING_ENHANCEMENT)]
            /\ pc' = "template_returned"
            /\ UNCHANGED exception
    /\ UNCHANGED <<config_vars, template, scene, use_template, use_orb,
                   orb_locals, orb_result, results, result, vis_image, ui_vars>>
    /\ UNCHANGED previous

\* `if template_result: results.append(template_result)`
AppendTemplateResult ==
    /\ pc = "template_returned"
    /\ results' = IF Truthy(template_result)
                  THEN Append(results, template_result)
                  ELSE results
    /\ trace' = <<>>
    /\ pc' = "orb_stage"
    /\ UNCHANGED <<config_vars, template, scene, use_template, use_orb,
                   template_result, orb_locals, orb_result, result,
                   exception, scene_enhancement, vis_image, ui_vars>>
    /\ UNCHANGED previous

\* `if use_template:` not taken
SkipTemplateMatching ==
    /\ pc = "template_stage"
    /\ ~use_template
    /\ pc' = "orb_stage"
    /\ UNCHANGED <<config_vars, template, scene, use_template, use_orb, trace,
                   template_result, orb_locals, orb_result, results, result,
                   exception, scene_enhancement, vis_image, ui_vars>>
    /\ UNCHANGED previous

\* `if use_orb:` taken: _orb_matching runs and returns or raises
RunOrbMatching ==
    /\ pc = "orb_stage"
    /\ use_orb
    /\ \E o \in SceneOrbOutcomes(template, scene) :
          LET r == OrbMatching(o, template, scene, USE_CENTER_POSITION,
                               USE_PREPROCESSING_ENHANCEMENT)
          IN  /\ orb_locals' = r.locals
              /\ orb_result' = r.ret
              /\ exception' = r.raised
              /\ pc' = IF r.raised = None THEN "orb_returned" ELSE "idle"
              /\ scene_enhancement' =
                     IF r.locals = None THEN scene_enhancement
                     ELSE [use_full |-> r.locals.use_full]
              /\ template' = SelfAfterOrb(template, o.keypoints)
    /\ UNCHANGED <<config_vars, scene, use_template, use_orb, trace,
                   template_result, results, result, vis_image, ui_vars>>
    /\ UNCHANGED previous

\* `if orb_result: results.append(orb_result)`
AppendOrbResult ==
    /\ pc = "orb_returned"
    /\ results' = IF Truthy(orb_result) THEN Append(results, orb_result) ELSE results
    /\ orb_locals' = None
    /\ pc' = "fuse"
    /\ UNCHANGED <<config_vars, template, scene, use_template, use_orb, trace,
                   template_result, orb_result, result,
                   exception, scene_enhancement, vis_image, ui_vars>>
    /\ UNCHANGED previous

\* `if use_orb:` not taken
SkipOrbMatching ==
    /\ pc = "orb_stage"
    /\ ~use_orb
    /\ pc' = "fuse"
    /\ UNCHANGED <<config_vars, template, scene, use_template, use_orb, trace,
                   template_result, orb_locals, orb_result, results, result,
                   exception, scene_enhancement, vis_image, ui_vars>>
    /\ UNCHANGED previous

\* the return statement of detect
DetectReturn ==
    /\ pc = "fuse"
    /\ result' = BestResult(results)
    /\ pc' = "idle"
    /\ UNCHANGED <<config_vars, template, scene, use_template, use_orb, trace,
                   template_result, orb_locals, orb_result, results,
                   exception, scene_enhancement, vis_image, ui_vars>>
    /\ UNCHANGED previous

\* visualize_detection called with the frame and the result detect returned
Visualize ==
    /\ pc = "idle"
    /\ result # None
    /\ vis_image = None
    /\ LET v == VisualizeDetection(scene, result, USE_CENTER_POSITION)
       IN  /\ scene' = v.battle_scene
           /\ vis_image' = v.vis_image
    /\ UNCHANGED <<config_vars, template, pc, use_template, use_orb, trace,
                   template_result, orb_locals, orb_result, results, result,
                   exception, scene_enhancement, ui_vars>>
    /\ UNCHANGED previous

\* MonsterDetector(template_path) succeeds: a new engine, nothing called on it
Construct(template_path) ==
    /\ pc = "idle"
    /\ LET new == NewMonsterDetector(template_path, USE_PREPROCESSING_ENHANCEMENT)
       IN  /\ new.raised = None
           /\ template' = new.self
    /\ scene' = None
    /\ use_template' = FALSE
    /\ use_orb' = FALSE
    /\ results' = <<>>
    /\ template_result' = None
    /\ orb_result' = None
    /\ result' = None
    /\ exception' = None
    /\ scene_enhancement' = None
    /\ vis_image' = None
    /\ UNCHANGED <<config_vars, pc, trace, orb_locals, ui_vars>>
    /\ UNCHANGED previous

Next ==
    \/ \E template_path \in DOMAIN TemplateFiles : Construct(template_path)
    \/ \E value \in ThresholdSet : OnThresholdChanged(value)
    \/ \E sc \in SceneSet, ut \in BOOLEAN, uo \in BOOLEAN : DetectCall(sc, ut, uo)
    \/ RunTemplateMatching
    \/ AppendTemplateResult
    \/ SkipTemplateMatching
    \/ RunOrbMatching
    \/ AppendOrbResult
    \/ SkipOrbMatching
    \/ DetectReturn
    \/ Visualize

Spec == Init /\ [][Next]_vars

\* what the OpenCV calls compute from the pixels of a frame: the peak of each
\* correlation measure and the outcome of the feature pipeline
ContentSet ==
    {[coeff |-> 80, corr |-> 65,
      orb |-> [keypoints |-> 20, match_exc |-> "none", matches |-> 20,
               homography |-> "found", inliers |-> 13,
               corners |-> <<<<4, 6>>, <<36, 6>>, <<36, 30>>, <<4, 30>>>>]],
     [coeff |-> 65, corr |-> 80,
      orb |-> [keypoints |-> 20, match_exc |-> "none", matches |-> 10,
               homography |-> "found", inliers |-> 8,
               corners |-> <<<<-3, -1>>, <<21, 0>>, <<22, 19>>, <<-2, 18>>>>]],
     [coeff |-> -10, corr |-> 0,
      orb |-> [keypoints |-> 0, match_exc |-> "none", matches |-> 0,
               homography |-> "none", inliers |-> 4,
               corners |-> <<<<4, 6>>, <<36, 6>>, <<36, 30>>, <<4, 30>>>>]]}

(***************************************************************************)
(* The window (src/ui.py): template, region, start, stop, and the          *)
(* detection thread that calls the engine on the captured region           *)
(***************************************************************************)
\* regions ROISelector.select_roi can return
RoiSet == {[x |-> 40, y |-> 30, width |-> 24, height |-> 18],
           [x |-> 5, y |-> 60, width |-> 16, height |-> 20]}

\* values the offset spin boxes can be set to
OffsetSet == {<<0, 0>>, <<3, -2>>}

\* the scale lists the window is run with
UiScaleLists == {l \in ScaleLists : Len(l) = 1 /\ l[1] \in {16, 24}}

\* a can_start that does not look at is_detecting
CanStart_IgnoresDetecting(d, r, detecting) == d # None /\ r # None

\* update_start_button: can_start
CanStart(d, r, detecting) == d # None /\ r # None /\ ~detecting

\* what can be on the screen in the region when the thread captures it: the
\* monster, found by the template matcher, or nothing that matches
ScreenContents == {c \in ContentSet : c.coeff # DEFAULT_THRESHOLD}

\* ScreenCapture.capture_roi of a valid region: a frame of the region's size
\* with what is on the screen there
CaptureRoi(r, c) == [w |-> r.width, h |-> r.height, content |-> c]

\* MonsterDetectorUI.__init__: no engine, no region, nothing running, the
\* buttons disabled, the statistics at zero, the capture contexts initialised
InitUI ==
    /\ TEMPLATE_THRESHOLD = DEFAULT_THRESHOLD
    /\ USE_CENTER_POSITION = TRUE
    /\ SCALES \in UiScaleLists
    /\ USE_PREPROCESSING_ENHANCEMENT = TRUE
    /\ template = None
    /\ pc = "idle"
    /\ scene = None
    /\ use_template = FALSE
    /\ use_orb = FALSE
    /\ trace = <<>>
    /\ template_result = None
    /\ orb_locals = None
    /\ orb_result = None
    /\ results = <<>>
    /\ result = None
    /\ exception = None
    /\ scene_enhancement = None
    /\ vis_image = None
    /\ detector = None
    /\ roi = None
    /\ is_detecting = FALSE
    /\ detection_thread = None
    /\ btn_start = FALSE
    /\ log_error = None
    /\ btn_stop = FALSE
    /\ gui = "ready"
    /\ capture_initialized = TRUE
    /\ overlay = None
    /\ capture = None
    /\ POSITION_OFFSET = <<0, 0>>
    /\ signals = <<>>
    /\ last_monster_position = <<>>
    /\ total_detections = 0
    /\ successful_detections = 0
    /\ previous = None

call_vars == <<template, pc, scene, use_template, use_orb, trace,
               template_result, orb_locals, orb_result, results, result,
               exception, scene_enhancement, vis_image>>

\* what on_detection_result and reset_stats work on
stats_vars == <<signals, last_monster_position, total_detections,
                successful_detections>>

\* The detection thread is between two iterations of its loop.
ThreadAtLoopTop == pc = "idle" /\ scene = None

\* the GUI thread is in its event loop and takes the next event
GuiReady == gui = "ready"

\* MonsterDetectorUI.load_template with a file chosen in the dialog: the
\* assignment and update_start_button happen only if the constructor returns;
\* otherwise the error is logged
LoadTemplate(file_path) ==
    /\ GuiReady
    /\ LET new == NewMonsterDetector(file_path, USE_PREPROCESSING_ENHANCEMENT)
       IN  IF new.raised = None
           THEN /\ detector' = new.self
                /\ btn_start' = CanStart(new.self, roi, is_detecting)
                /\ UNCHANGED log_error
           ELSE /\ log_error' = [source |-> "load_template", error |-> new.raised.type]
                /\ UNCHANGED <<detector, btn_start>>
    /\ UNCHANGED <<config_vars, call_vars, roi, is_detecting, detection_thread,
                   btn_stop, gui, capture_initialized, overlay, capture, stats_vars>>
    /\ UNCHANGED previous

\* MonsterDetectorUI.select_roi: the selection, None when it was cancelled,
\* is stored either way; the start button is updated only for a selection
SelectRoi(selected) ==
    /\ GuiReady
    /\ roi' = selected
    /\ btn_start' = IF selected # None
                    THEN CanStart(detector, selected, is_detecting)
                    ELSE btn_start
    /\ UNCHANGED <<config_vars, call_vars, detector, is_detecting,
                   detection_thread, log_error, btn_stop, gui,
                   capture_initialized, overlay, capture, stats_vars>>
    /\ UNCHANGED previous

\* MonsterDetectorUI.start_detection, clicked on the enabled start button; it
\* returns at once while detecting.  The thread gets the engine, the region
\* and the two check boxes as they are now, and run() sets running.
StartDetection(chk_template, chk_orb) ==
    /\ GuiReady
    /\ btn_start
    /\ ~is_detecting
    /\ is_detecting' = TRUE
    /\ btn_start' = FALSE
    /\ btn_stop' = TRUE
    /\ detection_thread' = [detector |-> detector, roi |-> roi,
                            use_template |-> chk_template, use_orb |-> chk_orb,
                            running |-> TRUE, finished |-> FALSE]
    /\ UNCHANGED <<config_vars, call_vars, detector, roi, log_error, gui,
                   capture_initialized, overlay, capture, stats_vars>>
    /\ UNCHANGED previous

\* MonsterDetectorUI.stop_detection up to wait(2000), clicked on the enabled
\* stop button; it returns at once while not detecting.  stop() clears the
\* thread's running flag and the GUI thread waits.
StopDetection ==
    /\ GuiReady
    /\ btn_stop
    /\ is_detecting
    /\ is_detecting' = FALSE
    /\ detection_thread' = IF detection_thread # None
                           THEN [detection_thread EXCEPT !.running = FALSE]
                           ELSE detection_thread
    /\ gui' = "stop_wait"
    /\ UNCHANGED <<config_vars, call_vars, detector, roi, btn_start, log_error,
                   btn_stop, capture_initialized, overlay, capture, stats_vars>>
    /\ UNCHANGED previous

\* MonsterDetectorUI.closeEvent: stop_detection if detecting, whose wait is
\* the next step, else ScreenCapture.cleanup at once
CloseEvent ==
    /\ GuiReady
    /\ IF is_detecting
       THEN /\ is_detecting' = FALSE
            /\ detection_thread' = IF detection_thread # None
                                   THEN [detection_thread EXCEPT !.running = FALSE]
                                   ELSE detection_thread
            /\ gui' = "close_wait"
            /\ UNCHANGED capture_initialized
       ELSE /\ capture_initialized' = FALSE
            /\ gui' = "closed"
            /\ UNCHANGED <<is_detecting, detection_thread>>
    /\ UNCHANGED <<config_vars, call_vars, detector, roi, btn_start, log_error,
                   btn_stop, overlay, capture, stats_vars>>
    /\ UNCHANGED previous

\* DetectionThread.run: `while self.running` is false at the iteration check,
\* run returns and the thread has finished
ThreadExits ==
    /\ detection_thread # None
    /\ ~detection_thread.running
    /\ ~detection_thread.finished
    /\ ThreadAtLoopTop
    /\ detection_thread' = [detection_thread EXCEPT !.finished = TRUE]
    /\ UNCHANGED <<config_vars, call_vars, detector, roi, is_detecting,
                   btn_start, log_error, btn_stop, gui, capture_initialized, overlay, capture,
                   stats_vars>>
    /\ UNCHANGED previous

\* the rest of stop_detection, and of closeEvent when it called it
AfterWait ==
    /\ detection_thread' = None
    /\ btn_start' = TRUE
    /\ btn_stop' = FALSE
    /\ IF gui = "close_wait"
       THEN capture_initialized' = FALSE /\ gui' = "closed"
       ELSE gui' = "ready" /\ UNCHANGED capture_initialized
    /\ UNCHANGED <<config_vars, detector, roi, is_detecting, log_error,
                   overlay, capture, stats_vars>>
    /\ UNCHANGED previous

\* a stop_detection that does not wait for the thread
StopDetectionReturns_NoWait ==
    /\ gui \in {"stop_wait", "close_wait"}
    /\ detection_thread # None
    /\ AfterWait
    /\ UNCHANGED call_vars

\* stop_detection, wait(2000) returns because the thread has finished
StopDetectionReturns ==
    /\ gui \in {"stop_wait", "close_wait"}
    /\ detection_thread # None
    /\ detection_thread.finished
    /\ AfterWait
    /\ UNCHANGED call_vars

\* stop_detection, wait(2000) times out with the thread still in its loop:
\* isRunning() holds and terminate() ends the thread where it is
StopDetectionTerminates ==
    /\ gui \in {"stop_wait", "close_wait"}
    /\ detection_thread # None
    /\ ~detection_thread.finished
    /\ AfterWait
    /\ pc' = "idle"
    /\ scene' = None
    /\ use_template' = FALSE
    /\ use_orb' = FALSE
    /\ trace' = <<>>
    /\ template_result' = None
    /\ orb_locals' = None
    /\ orb_result' = None
    /\ results' = <<>>
    /\ result' = None
    /\ scene_enhancement' = None
    /\ vis_image' = None
    /\ UNCHANGED <<template, exception>>

\* MonsterDetectorUI.on_preprocessing_changed (stateChanged fires only on a
\* new state): the flag is set, the engine is left as it is
OnPreprocessingChanged(enabled) ==
    /\ GuiReady
    /\ enabled # USE_PREPROCESSING_ENHANCEMENT
    /\ USE_PREPROCESSING_ENHANCEMENT' = enabled
    /\ UNCHANGED <<TEMPLATE_THRESHOLD, USE_CENTER_POSITION, SCALES,
                   POSITION_OFFSET, call_vars, ui_vars>>
    /\ UNCHANGED previous

\* MonsterDetectorUI.on_offset_changed: the two offsets are stored; the last
\* position is not recomputed
OnOffsetChanged(offset) ==
    /\ GuiReady
    /\ offset # POSITION_OFFSET
    /\ POSITION_OFFSET' = offset
    /\ UNCHANGED <<TEMPLATE_THRESHOLD, USE_CENTER_POSITION, SCALES,
                   USE_PREPROCESSING_ENHANCEMENT, call_vars, ui_vars>>
    /\ UNCHANGED previous

\* a thread that reads the engine, the region and the check boxes of the
\* window at every iteration
ThreadDetectCall_ReadsWindow ==
    /\ detection_thread # None
    /\ detection_thread.running
    /\ roi # None
    /\ detector # None
    /\ capture_initialized
    /\ ThreadAtLoopTop
    /\ pc' = "template_stage"
    /\ template' = detector
    /\ \E c \in ScreenContents : scene' = CaptureRoi(roi, c)
    /\ use_template' = detection_thread.use_template
    /\ use_orb' = detection_thread.use_orb
    /\ results' = <<>>
    /\ trace' = <<>>
    /\ template_result' = None
    /\ orb_locals' = None
    /\ orb_result' = None
    /\ result' = None
    /\ exception' = None
    /\ scene_enhancement' = None
    /\ vis_image' = None
    /\ UNCHANGED <<config_vars, ui_vars>>
    /\ UNCHANGED previous

\* DetectionThread.run, one iteration up to the call: the thread's region is
\* captured and the thread's engine is called on the frame with the thread's
\* flags
ThreadDetectCall ==
    /\ detection_thread # None
    /\ detection_thread.running
    /\ detection_thread.roi # None
    /\ capture_initialized
    /\ ThreadAtLoopTop
    /\ pc' = "template_stage"
    /\ template' = detection_thread.detector
    /\ \E c \in ScreenContents : scene' = CaptureRoi(detection_thread.roi, c)
    /\ use_template' = detection_thread.use_template
    /\ use_orb' = detection_thread.use_orb
    /\ results' = <<>>
    /\ trace' = <<>>
    /\ template_result' = None
    /\ orb_locals' = None
    /\ orb_result' = None
    /\ result' = None
    /\ exception' = None
    /\ scene_enhancement' = None
    /\ vis_image' = None
    /\ UNCHANGED <<config_vars, ui_vars>>
    /\ UNCHANGED previous

\* DetectionThread.run, capture_roi returns None (the contexts are not
\* initialised, or BitBlt and the ImageGrab fallback both failed):
\* error_occurred is emitted, the window logs it, the loop goes on
ThreadCaptureNone ==
    /\ detection_thread # None
    /\ detection_thread.running
    /\ detection_thread.roi # None
    /\ ThreadAtLoopTop
    /\ log_error' = [source |-> "detection_thread", error |-> "capture"]
    /\ UNCHANGED <<config_vars, call_vars, detector, roi, is_detecting,
                   detection_thread, btn_start, btn_stop, gui,
                   capture_initialized, overlay, capture, stats_vars>>
    /\ UNCHANGED previous

\* DetectionThread.run with no region: capture_roi fails on roi.is_valid(),
\* the loop catches the error, error_occurred is emitted and the window logs it
ThreadCaptureFails ==
    /\ detection_thread # None
    /\ detection_thread.running
    /\ detection_thread.roi = None
    /\ capture_initialized
    /\ ThreadAtLoopTop
    /\ log_error' = [source |-> "detection_thread", error |-> "AttributeError"]
    /\ UNCHANGED <<config_vars, call_vars, detector, roi, is_detecting,
                   detection_thread, btn_start, btn_stop, gui,
                   capture_initialized, overlay, capture, stats_vars>>
    /\ UNCHANGED previous

\* the end of an iteration in the thread: the locals of the iteration are
\* dropped
IterationEnds ==
    /\ pc = "idle"
    /\ vis_image # None
    /\ scene' = None
    /\ use_template' = FALSE
    /\ use_orb' = FALSE
    /\ results' = <<>>
    /\ template_result' = None
    /\ orb_result' = None
    /\ result' = None
    /\ scene_enhancement' = None
    /\ vis_image' = None
    /\ UNCHANGED <<config_vars, template, pc, trace, orb_locals, exception>>
    /\ UNCHANGED previous

\* DetectionThread.run, the end of an iteration: result_ready is emitted with
\* the result and the drawn frame; what the window does with it is not followed
EmitResult ==
    /\ IterationEnds
    /\ UNCHANGED ui_vars

NextUI ==
    \/ \E file_path \in DOMAIN TemplateFiles : LoadTemplate(file_path)
    \/ \E selected \in RoiSet \cup {None} : SelectRoi(selected)
    \/ \E chk_template \in BOOLEAN, chk_orb \in BOOLEAN :
          StartDetection(chk_template, chk_orb)
    \/ StopDetection
    \/ CloseEvent
    \/ ThreadExits
    \/ StopDetectionReturns
    \/ StopDetectionTerminates
    \/ \E enabled \in BOOLEAN : OnPreprocessingChanged(enabled)
    \/ ThreadDetectCall
    \/ ThreadCaptureNone
    \/ ThreadCaptureFails
    \/ RunTemplateMatching
    \/ AppendTemplateResult
    \/ SkipTemplateMatching
    \/ RunOrbMatching
    \/ AppendOrbResult
    \/ SkipOrbMatching
    \/ DetectReturn
    \/ Visualize
    \/ EmitResult

SpecUI == InitUI /\ [][NextUI]_vars

(***************************************************************************)
(* The window's handling of what the thread emits: the signals are queued  *)
(* for the GUI thread, which counts the results and keeps the last position*)
(***************************************************************************)
\* DetectionThread.run, the end of an iteration: result_ready is emitted with
\* the result (and the drawn frame, which the window only displays); the
\* signal is queued for the GUI thread.  frame_roi notes the region the frame
\* of the result was captured in.
EmitResultReady ==
    /\ IterationEnds
    /\ detection_thread # None
    /\ Len(signals) < MaxPending
    /\ signals' = Append(signals, [name |-> "result_ready", result |-> result,
                                   frame_roi |-> detection_thread.roi])
    /\ UNCHANGED <<detector, roi, is_detecting, detection_thread, btn_start,
                   log_error, btn_stop, gui, capture_initialized, overlay, capture,
                   last_monster_position, total_detections,
                   successful_detections>>

\* DetectionThread.run, an iteration without a frame: capture_roi returned
\* None (BitBlt and the ImageGrab fallback both failed) or, with no region,
\* raised on roi.is_valid(); error_occurred is emitted, after msleep(100) the
\* loop goes on
ThreadEmitsError ==
    /\ detection_thread # None
    /\ detection_thread.running
    /\ ThreadAtLoopTop
    /\ Len(signals) < MaxPending
    /\ signals' = Append(signals,
                         [name |-> "error_occurred",
                          error |-> IF detection_thread.roi = None
                                    THEN "AttributeError" ELSE "capture"])
    /\ UNCHANGED <<config_vars, call_vars, detector, roi, is_detecting,
                   detection_thread, btn_start, log_error, btn_stop, gui,
                   capture_initialized, overlay, capture, last_monster_position,
                   total_detections, successful_detections>>
    /\ UNCHANGED previous

\* absolute = ROI origin + relative position + offset
AbsolutePosition(r, position, offset) ==
    <<r.x + position[1] + offset[1], r.y + position[2] + offset[2]>>

\* a handler that counts every result as a success
OnDetectionResult_CountsAll ==
    /\ GuiReady
    /\ signals # <<>>
    /\ Head(signals).name = "result_ready"
    /\ total_detections < MaxDetections
    /\ signals' = Tail(signals)
    /\ total_detections' = total_detections + 1
    /\ successful_detections' = successful_detections + 1
    /\ last_monster_position' =
           IF Head(signals).result.found /\ roi # None
           THEN AbsolutePosition(roi, Head(signals).result.position, POSITION_OFFSET)
           ELSE last_monster_position
    /\ UNCHANGED <<config_vars, call_vars, detector, roi, is_detecting,
                   detection_thread, btn_start, log_error, btn_stop, gui,
                   capture_initialized, overlay, capture>>
    /\ UNCHANGED previous

\* MonsterDetectorUI.on_detection_result for the oldest queued result: the
\* counters, and for a found result with a region in the window the last
\* position, from the window's region and the offsets as they are now
OnDetectionResult ==
    /\ GuiReady
    /\ signals # <<>>
    /\ Head(signals).name = "result_ready"
    /\ total_detections < MaxDetections
    /\ signals' = Tail(signals)
    /\ total_detections' = total_detections + 1
    /\ successful_detections' = IF Head(signals).result.found
                                THEN successful_detections + 1
                                ELSE successful_detections
    /\ last_monster_position' =
           IF Head(signals).result.found /\ roi # None
           THEN AbsolutePosition(roi, Head(signals).result.position, POSITION_OFFSET)
           ELSE last_monster_position
    /\ UNCHANGED <<config_vars, call_vars, detector, roi, is_detecting,
                   detection_thread, btn_start, log_error, btn_stop, gui,
                   capture_initialized, overlay, capture>>
    /\ UNCHANGED previous

\* MonsterDetectorUI.on_detection_error for the oldest queued error: logged
OnDetectionError ==
    /\ GuiReady
    /\ signals # <<>>
    /\ Head(signals).name = "error_occurred"
    /\ signals' = Tail(signals)
    /\ log_error' = [source |-> "detection_thread", error |-> Head(signals).error]
    /\ UNCHANGED <<config_vars, call_vars, detector, roi, is_detecting,
                   detection_thread, btn_start, btn_stop, gui,
                   capture_initialized, overlay, capture, last_monster_position,
                   total_detections, successful_detections>>
    /\ UNCHANGED previous

\* MonsterDetectorUI.reset_stats
ResetStats ==
    /\ GuiReady
    /\ total_detections' = 0
    /\ successful_detections' = 0
    /\ UNCHANGED <<config_vars, call_vars, detector, roi, is_detecting,
                   detection_thread, btn_start, log_error, btn_stop, gui,
                   capture_initialized, overlay, capture, signals, last_monster_position>>
    /\ UNCHANGED previous

NextResults ==
    \/ LoadTemplate("monster.png")
    \/ \E selected \in RoiSet \cup {None} : SelectRoi(selected)
    \/ StartDetection(TRUE, FALSE)
    \/ StopDetection
    \/ ThreadExits
    \/ StopDetectionReturns
    \/ StopDetectionTerminates
    \/ \E offset \in OffsetSet : OnOffsetChanged(offset)
    \/ ThreadDetectCall
    \/ ThreadEmitsError
    \/ RunTemplateMatching
    \/ AppendTemplateResult
    \/ SkipOrbMatching
    \/ DetectReturn
    \/ Visualize
    \/ EmitResultReady
    \/ OnDetectionResult
    \/ OnDetectionError
    \/ ResetStats

\* the window as constructed, run with the one scale that fits both regions
InitResults == InitUI /\ SCALES = <<16>>

SpecResults == InitResults /\ [][NextResults]_vars

(***************************************************************************)
(* Properties of detect (result fusion)                                    *)
(***************************************************************************)
\* detect has returned
Returned == pc = "idle" /\ result # None

\* the candidates the matchers of the call produced
Candidates == {template_result, orb_result} \ {None}

\* C1: when both matchers are disabled, and more generally when no enabled
\* matcher produced a candidate, detect returns found = False, method 'none',
\* confidence 0, position (0, 0) and size (0, 0).
C1_NoCandidateGivesNotFound ==
    (Returned /\ ((~use_template /\ ~use_orb) \/ Candidates = {}))
        => /\ result.found = FALSE
           /\ result.method = "none"
           /\ result.confidence.num = 0
           /\ result.position = <<0, 0>>
           /\ result.size = <<0, 0>>

C1_Witness ==
    Returned /\ use_template /\ use_orb /\ Candidates = {} /\ result.method = "none"

\* C2: when at least one matcher produced a candidate, the result detect
\* returns is one of the candidates and no candidate has a higher confidence.
C2_ResultIsMaxCandidate ==
    (Returned /\ Candidates # {})
        => /\ result \in Candidates
           /\ \A c \in Candidates : ~RatLess(result.confidence, c.confidence)

C2_Witness ==
    /\ Returned
    /\ template_result # None /\ orb_result # None
    /\ RatLess(template_result.confidence, orb_result.confidence)
    /\ result = orb_result

\* C3: when the template candidate and the ORB candidate have equal
\* confidence, detect returns the template candidate.
C3_TieGoesToTemplate ==
    (/\ Returned
     /\ template_result # None /\ orb_result # None
     /\ RatEq(template_result.confidence, orb_result.confidence))
        => result = template_result /\ result.method = "template"

C3_Witness ==
    /\ Returned
    /\ template_result # None /\ orb_result # None
    /\ RatEq(template_result.confidence, orb_result.confidence)
    /\ result.method = "template"
    /\ result # orb_result

SweepReturned == pc = "template_returned"

\* int(dim * scale) for a scale that is not negative
ScaledDim(dim, scale) == (dim * scale) \div ScaleDen

\* the scales whose correlation peak reached the acceptance threshold
PassingIdx ==
    {i \in 1..Len(trace) : trace[i].resized /\ trace[i].max_val >= TEMPLATE_THRESHOLD}

\* the result is the one of the i-th scale of the list
ResultOfScale(r, i) ==
    /\ r.confidence = Rat(trace[i].max_val, PeakDen)
    /\ r.scale = Rat(SCALES[i], ScaleDen)
    /\ r.size = <<ScaledDim(template.w, SCALES[i]), ScaledDim(template.h, SCALES[i])>>

\* C5: the result of the sweep, if any, is the one of a scale whose peak is
\* the highest of all peaks of the sweep that reached the threshold: it has
\* that peak as confidence, that list entry as scale and
\* (int(w * scale), int(h * scale)) as size.
C5_SweepReturnsGlobalBest ==
    (SweepReturned /\ template_result # None)
        => \E i \in PassingIdx :
              /\ \A j \in PassingIdx : trace[j].max_val <= trace[i].max_val
              /\ ResultOfScale(template_result, i)

C5_Witness ==
    /\ SweepReturned
    /\ template_result # None
    /\ \E i \in PassingIdx, j \in PassingIdx :
          /\ i < j
          /\ trace[i].max_val < trace[j].max_val
          /\ SCALES[i] # SCALES[j]
          /\ ResultOfScale(template_result, j)

\* all peaks of the earlier scales of the sweep are lower than the i-th
BestSoFar(i) ==
    \A j \in 1..(i - 1) : trace[j].resized => trace[j].max_val < trace[i].max_val

\* the sweep has returned and detect has not
InCallAfterSweep == pc \in {"template_returned", "orb_stage", "orb_returned", "fuse"}

\* C6 as stated: a peak is recorded only if it is strictly above the threshold
\* and the best so far, and every template result has a confidence strictly
\* above TEMPLATE_THRESHOLD.
C6_StrictlyAboveThreshold ==
    /\ SweepReturned
          => \A i \in 1..Len(trace) :
                trace[i].recorded
                    => trace[i].max_val > TEMPLATE_THRESHOLD /\ BestSoFar(i)
    /\ (InCallAfterSweep /\ template_result # None)
          => /\ template_result.method = "template"
             /\ RatLess(Rat(TEMPLATE_THRESHOLD, PeakDen), template_result.confidence)

\* C6 (amended): a peak is recorded only if it is at or above the threshold
\* and strictly above every earlier peak of the sweep; a peak below the
\* threshold is never returned, so every template result has a confidence at
\* or above TEMPLATE_THRESHOLD.
C6_AtOrAboveThreshold ==
    /\ SweepReturned
          => \A i \in 1..Len(trace) :
                trace[i].recorded
                    => trace[i].max_val >= TEMPLATE_THRESHOLD /\ BestSoFar(i)
    /\ (InCallAfterSweep /\ template_result # None)
          => /\ template_result.method = "template"
             /\ ~RatLess(template_result.confidence, Rat(TEMPLATE_THRESHOLD, PeakDen))

C6_Witness ==
    /\ SweepReturned
    /\ template_result # None
    /\ template_result.confidence = Rat(TEMPLATE_THRESHOLD, PeakDen)
    /\ \E i \in 1..Len(trace) : trace[i].recorded /\ trace[i].max_val = TEMPLATE_THRESHOLD

\* the resized dimensions of the i-th scale are geometrically invalid
InvalidDims(i) ==
    LET new_w == ScaledDim(template.w, SCALES[i])
        new_h == ScaledDim(template.h, SCALES[i])
    IN  new_w < 8 \/ new_h < 8 \/ new_w > scene.w \/ new_h > scene.h

\* C7: a scale whose resized template is below 8 px in either dimension or
\* exceeds the scene in either dimension is skipped, neither resized nor
\* correlated; every other scale, the ones exactly at the limits included, is
\* resized and correlated; resize never gets a non-positive dimension.
C7_InvalidScalesSkipped ==
    SweepReturned
        => /\ Len(trace) = Len(SCALES)
           /\ \A i \in 1..Len(trace) :
                 /\ InvalidDims(i) => (~trace[i].resized /\ trace[i].m = None)
                 /\ ~InvalidDims(i) => (trace[i].resized /\ trace[i].m # None)
                 /\ trace[i].resized
                       => /\ ScaledDim(template.w, SCALES[i]) > 0
                          /\ ScaledDim(template.h, SCALES[i]) > 0

C7_Witness ==
    /\ SweepReturned
    /\ \E i \in 1..Len(trace), j \in 1..Len(trace) :
          /\ InvalidDims(i) /\ ~trace[i].resized
          /\ ScaledDim(template.w, SCALES[i]) = 8
          /\ trace[j].resized
          /\ ScaledDim(template.h, SCALES[j]) = 8 \/ ScaledDim(template.w, SCALES[j]) = scene.w

\* C8: when several scales reach the same highest passing peak, the result
\* is the one of the first of them in the order of the scale list, and no
\* later scale replaces it.
C8_FirstOfEqualPeaksWins ==
    (SweepReturned /\ template_result # None)
        => /\ PassingIdx # {}
           /\ LET best == SetMax({trace[i].max_val : i \in PassingIdx})
                  first == SetMin({i \in PassingIdx : trace[i].max_val = best})
              IN  /\ trace[first].recorded
                  /\ ResultOfScale(template_result, first)
                  /\ \A j \in (first + 1)..Len(trace) : ~trace[j].recorded

C8_Witness ==
    /\ SweepReturned
    /\ template_result # None
    /\ \E i \in PassingIdx, j \in PassingIdx :
          /\ i < j
          /\ trace[i].max_val = trace[j].max_val
          /\ \A k \in PassingIdx : trace[k].max_val <= trace[i].max_val
          /\ SCALES[i] # SCALES[j]
          /\ ResultOfScale(template_result, i)
          /\ ~ResultOfScale(template_result, j)

\* C9: for every scale that is not skipped, the score the sweep uses is the
\* higher of the peaks of the two measures, and the peak location it uses is
\* the one of a measure that reached that score.
C9_ScoreIsBestOfMeasures ==
    SweepReturned
        => \A i \in 1..Len(trace) :
              trace[i].resized
                  => /\ trace[i].max_val =
                            Max2(trace[i].m.coeff.max_val, trace[i].m.corr.max_val)
                     /\ trace[i].recorded
                           => \E r \in {trace[i].m.coeff, trace[i].m.corr} :
                                 /\ r.max_val = trace[i].max_val
                                 /\ r.max_loc = trace[i].max_loc

C9_Witness ==
    /\ SweepReturned
    /\ \E i \in 1..Len(trace) :
          /\ trace[i].recorded
          /\ trace[i].m.coeff.max_val < trace[i].m.corr.max_val
          /\ trace[i].m.coeff.max_val > 0
          /\ trace[i].max_loc = trace[i].m.corr.max_loc
          /\ trace[i].max_loc # trace[i].m.coeff.max_loc

(***************************************************************************)
(* Position reporting                                                      *)
(***************************************************************************)
\* the position the display mode asks for, of a rectangle and its top-left corner
ReportedPosition(top_left, size) ==
    IF USE_CENTER_POSITION
    THEN <<top_left[1] + (size[1] \div 2), top_left[2] + (size[2] \div 2)>>
    ELSE top_left

\* C10: for both matchers the reported position is the centre of the matched
\* rectangle, top-left + (width // 2, height // 2), in centre mode and the
\* top-left corner otherwise: the correlation peak location for the template
\* matcher, (x_min, y_min) of the bounding box for the feature matcher.
C10_PositionFollowsMode ==
    /\ (SweepReturned /\ template_result # None)
          => /\ \E i \in 1..Len(trace) : trace[i].recorded
             /\ LET last == SetMax({i \in 1..Len(trace) : trace[i].recorded})
                IN  template_result.position =
                        ReportedPosition(trace[last].max_loc, template_result.size)
    /\ (pc = "orb_returned" /\ orb_result # None)
          => /\ orb_result.size = <<orb_locals.x_max - orb_locals.x_min,
                                    orb_locals.y_max - orb_locals.y_min>>
             /\ orb_result.position =
                    ReportedPosition(<<orb_locals.x_min, orb_locals.y_min>>,
                                     orb_result.size)

C10_Witness ==
    /\ pc = "orb_returned"
    /\ orb_result # None
    /\ USE_CENTER_POSITION
    /\ orb_locals.x_min + orb_locals.x_max < 0
    /\ (orb_locals.x_min + orb_locals.x_max) % 2 = 1
    /\ orb_result.position[1] = orb_locals.x_min + ((orb_locals.x_max - orb_locals.x_min) \div 2)

(***************************************************************************)
(* Repeated calls on frames whose content is given                         *)
(***************************************************************************)
\* frames with content a caller can pass to detect
ContentSceneSet ==
    {[w |-> d.w, h |-> d.h, content |-> c] :
        d \in {[w |-> 24, h |-> 18], [w |-> 16, h |-> 20]}, c \in ContentSet}

\* the scale lists the repeated calls are run with
RepeatScaleLists == {l \in ScaleLists : Len(l) <= 1}

\* an engine is constructed, nothing has been called yet
InitRepeat ==
    /\ TEMPLATE_THRESHOLD = DEFAULT_THRESHOLD
    /\ USE_CENTER_POSITION = TRUE
    /\ SCALES \in RepeatScaleLists
    /\ USE_PREPROCESSING_ENHANCEMENT = TRUE
    /\ template = MonsterDetector(TemplateFiles["monster.png"], TRUE)
    /\ pc = "idle"
    /\ scene = None
    /\ use_template = FALSE
    /\ use_orb = FALSE
    /\ trace = <<>>
    /\ template_result = None
    /\ orb_locals = None
    /\ orb_result = None
    /\ results = <<>>
    /\ result = None
    /\ exception = None
    /\ scene_enhancement = None
    /\ vis_image = None
    /\ detector = None
    /\ roi = None
    /\ is_detecting = FALSE
    /\ detection_thread = None
    /\ btn_start = FALSE
    /\ log_error = None
    /\ btn_stop = FALSE
    /\ gui = "ready"
    /\ capture_initialized = TRUE
    /\ overlay = None
    /\ capture = None
    /\ POSITION_OFFSET = <<0, 0>>
    /\ signals = <<>>
    /\ last_monster_position = <<>>
    /\ total_detections = 0
    /\ successful_detections = 0
    /\ previous = None

\* the caller notes the call that has just returned: its arguments, the
\* engine state and the configuration it ran with, and its result
RecordCall ==
    /\ pc = "idle"
    /\ result # None
    /\ previous = None
    /\ previous' = [scene |-> scene, use_template |-> use_template,
                    use_orb |-> use_orb, template |-> template,
                    config |-> config_vars, result |-> result,
                    called_again |-> FALSE]
    /\ UNCHANGED <<config_vars, call_vars, ui_vars>>

\* a call of detect by a caller that has noted an earlier call or may do so
DetectCallAgain(sc, ut, uo) ==
    /\ DetectEnter(sc, ut, uo)
    /\ previous' = IF previous = None THEN previous
                   ELSE [previous EXCEPT !.called_again = TRUE]

NextRepeat ==
    \/ \E value \in ThresholdSet : OnThresholdChanged(value)
    \/ \E sc \in ContentSceneSet, ut \in BOOLEAN, uo \in BOOLEAN :
          DetectCallAgain(sc, ut, uo)
    \/ RunTemplateMatching
    \/ AppendTemplateResult
    \/ SkipTemplateMatching
    \/ RunOrbMatching
    \/ AppendOrbResult
    \/ SkipOrbMatching
    \/ DetectReturn
    \/ RecordCall

SpecRepeat == InitRepeat /\ [][NextRepeat]_vars

\* the call that has returned had the arguments, the engine state and the
\* configuration of the noted call
SameCallAsPrevious ==
    /\ previous # None
    /\ previous.called_again
    /\ pc = "idle"
    /\ result # None
    /\ previous.scene = scene
    /\ previous.use_template = use_template
    /\ previous.use_orb = use_orb
    /\ previous.template = template
    /\ previous.config = config_vars

\* C16: a detect call with the scene, the flags, the engine state and the
\* configuration of an earlier call returns the result the earlier call
\* returned, whatever calls were made in between.
C16_SameCallSameResult ==
    SameCallAsPrevious => result = previous.result

C16_Witness ==
    /\ SameCallAsPrevious
    /\ result = previous.result
    /\ result.found
    /\ result.method = "template"

(***************************************************************************)
(* Soft misses and errors                                                  *)
(***************************************************************************)
\* the template stage of the call is over, by a return or by an exception
TemplateStageOver == scene # None /\ use_template /\ pc # "template_stage"

\* no scale of the list gives a resized template the sweep can correlate: the
\* list is empty, every scale is invalid, or the scene is too small for all
NoUsableScale == \A i \in 1..Len(SCALES) : InvalidDims(i)

\* C11: with an empty scale list, a list of invalid scales only, or a scene
\* smaller than every valid resized template, the sweep ends without an
\* error and yields None, and detect with only the template matcher enabled
\* returns the canonical not-found result.
C11_NoUsableScaleGivesNone ==
    (TemplateStageOver /\ NoUsableScale)
        => /\ exception = None
           /\ template_result = None
           /\ (pc = "idle" /\ ~use_orb) => result = NotFound

\* C12: no exception leaves detect, whatever the scene, the scales and the
\* outcomes of the matchers; a finished call has returned a DetectionResult.
C12_DetectNeverRaises ==
    /\ exception = None
    /\ (pc = "idle" /\ scene # None)
          => /\ result # None
             /\ result.found \in BOOLEAN

(***************************************************************************)
(* Feature matcher                                                         *)
(***************************************************************************)
OrbReturned == pc = "orb_returned"

\* _orb_matching got as far as counting the matches
MatchesCounted == orb_locals.reached \in {"matches", "homography", "result"}

\* C13: the feature matcher returns a result only if the scene gave at least
\* ORB_MIN_MATCHES keypoints and at least ORB_MIN_MATCHES matches were found;
\* with fewer keypoints (zero included) or fewer matches it returns None.
C13_NeedsEnoughKeypointsAndMatches ==
    OrbReturned
        => /\ orb_result # None
                 => /\ orb_locals.scene_keypoints >= ORB_MIN_MATCHES
                    /\ MatchesCounted
                    /\ orb_locals.matches >= ORB_MIN_MATCHES
           /\ orb_locals.scene_keypoints < ORB_MIN_MATCHES
                 => (orb_result = None /\ orb_locals.reached = "keypoints")
           /\ (MatchesCounted /\ orb_locals.matches < ORB_MIN_MATCHES)
                 => (orb_result = None /\ orb_locals.reached = "matches")

C13_Witness ==
    /\ OrbReturned
    /\ orb_locals.scene_keypoints >= ORB_MIN_MATCHES
    /\ orb_locals.reached = "matches"
    /\ orb_locals.matches = ORB_MIN_MATCHES - 1
    /\ orb_result = None

\* C14: an error raised by the descriptor matching or by the transform
\* fitting never leaves the feature matcher; after such an error, after a
\* fit that found no homography, and for a template without keypoints the
\* feature matcher returns None.
C14_MatcherFailuresGiveNone ==
    /\ exception # None
          => exception.raised_by \notin {"bf_matcher.match", "cv2.findHomography"}
    /\ OrbReturned
          => /\ orb_locals.reached \in {"match", "homography"} => orb_result = None
             /\ template.keypoints = 0 => orb_result = None

C14_Witness ==
    /\ OrbReturned
    /\ orb_locals.reached = "homography"
    /\ orb_locals.homography = "cv2.error"
    /\ orb_result = None
    /\ exception = None

\* C15: the confidence of every result detect returns is between 0 and 1; a
\* feature-matcher result has confidence inliers / matches, with
\* 0 <= inliers <= matches and matches >= ORB_MIN_MATCHES.
C15_ConfidenceInUnitInterval ==
    /\ Returned
          => /\ result.confidence.den > 0
             /\ 0 <= result.confidence.num
             /\ result.confidence.num <= result.confidence.den
    /\ (OrbReturned /\ orb_result # None)
          => /\ orb_result.confidence.num = orb_locals.inliers
             /\ orb_result.confidence.den = orb_locals.matches
             /\ 0 <= orb_locals.inliers
             /\ orb_locals.inliers <= orb_locals.matches
             /\ orb_locals.matches >= ORB_MIN_MATCHES

C15_Witness ==
    /\ Returned
    /\ result.method = "orb"
    /\ result.confidence.num = result.confidence.den
    /\ result.confidence.den > ORB_MIN_MATCHES

(***************************************************************************)
(* Frame conditions of detect and visualize_detection                      *)
(***************************************************************************)
\* a step of a detect call, or the step of visualize_detection
DetectOrVisualizeStep == pc # "idle" \/ (vis_image = None /\ vis_image' # None)

\* C17: no step of detect or of visualize_detection changes the engine's
\* template state; it changes only when a new engine is constructed, and the
\* new engine starts without any result of an earlier call.
C17_TemplateStateImmutable ==
    [][/\ DetectOrVisualizeStep => template' = template
       /\ template' # template
             => /\ pc = "idle" /\ pc' = "idle"
                /\ scene' = None /\ result' = None /\ results' = <<>>
                /\ template_result' = None /\ orb_result' = None]_vars

C17_Witness ==
    /\ pc = "idle"
    /\ vis_image # None
    /\ result.found
    /\ result.method = "orb"
    /\ template.keypoints > 0

\* C18: no step of detect or of visualize_detection changes the caller's
\* scene; the image visualize_detection returns is a copy of the scene,
\* annotated if and only if the result was found.
C18_SceneBufferUntouched ==
    [][/\ DetectOrVisualizeStep => scene' = scene
       /\ vis_image' # None
             => /\ vis_image'.image = scene'
                /\ result'.found <=> vis_image'.annotations # None]_vars

C18_Witness ==
    /\ vis_image # None
    /\ result.found
    /\ vis_image.annotations # None
    /\ vis_image.image = scene
    /\ scene \in SceneSet

(***************************************************************************)
(* Preprocessing setting and template loading in the window                *)
(***************************************************************************)
\* C19: in every detect call the scene is preprocessed with the enhancement
\* setting the running engine's template was preprocessed with at construction.
C19_ScenePreprocessedLikeTemplate ==
    scene_enhancement # None => scene_enhancement.use_full = template.enhanced

\* the engines a successful construction can produce
Engines == {MonsterDetector(t, f) : t \in TemplateSet, f \in BOOLEAN}

\* a step of load_template whose constructor raised
FailedLoad ==
    /\ log_error' # log_error
    /\ log_error' # None
    /\ log_error'.source = "load_template"

\* C20: the window never holds an engine other than a fully constructed one,
\* and a load_template whose constructor fails leaves the detector, the
\* region, the detection state, the thread and the start button as they were.
C20_FailedLoadChangesNothing ==
    [][/\ detector' # None => detector' \in Engines
       /\ FailedLoad
             => /\ log_error'.error = "FileNotFoundError"
                /\ detector' = detector
                /\ roi' = roi
                /\ is_detecting' = is_detecting
                /\ detection_thread' = detection_thread
                /\ btn_start' = btn_start]_vars

C20_Witness ==
    /\ log_error # None
    /\ log_error.source = "load_template"
    /\ detector # None
    /\ roi # None
    /\ is_detecting
    /\ detection_thread # None

(***************************************************************************)
(* Configuration read at the call                                          *)
(***************************************************************************)
\* the sweep that has just returned was run with the configuration as it is
\* now: one trace entry per configured scale, no peak below the configured
\* threshold recorded, and a result exactly when a peak reached it
SweepUsedConfiguration ==
    /\ Len(trace) = Len(SCALES)
    /\ \A i \in 1..Len(trace) :
          /\ trace[i].scale = SCALES[i]
          /\ trace[i].recorded => trace[i].max_val >= TEMPLATE_THRESHOLD
    /\ template_result # None <=> PassingIdx # {}

\* C21: configuration is read at call time: on_threshold_changed changes the
\* threshold and nothing else, the engine is not rebuilt, and the sweep of the
\* next detect call on the same engine accepts and rejects peaks by the new
\* threshold (and runs over the configured scale list).
C21_ConfigurationReadAtCall ==
    [][/\ TEMPLATE_THRESHOLD' # TEMPLATE_THRESHOLD
             => /\ template' = template
                /\ pc' = "idle"
                /\ UNCHANGED <<USE_CENTER_POSITION, SCALES, ui_vars>>
       /\ (pc = "template_stage" /\ pc' = "template_returned")
             => /\ template' = template
                /\ SweepUsedConfiguration']_vars

\* a sweep under the raised threshold rejects a peak that the default
\* threshold would have accepted
C21_Witness ==
    /\ SweepReturned
    /\ TEMPLATE_THRESHOLD # DEFAULT_THRESHOLD
    /\ template_result = None
    /\ \E i \in 1..Len(trace) :
          trace[i].resized /\ trace[i].max_val = DEFAULT_THRESHOLD

(***************************************************************************)
(* The drawn rectangle                                                     *)
(***************************************************************************)
\* visualize_detection has returned an annotated frame for the found result
Drawn == pc = "idle" /\ vis_image # None /\ result # None /\ result.found

\* the rectangle visualize_detection derives from the candidate r has its
\* top-left corner at top_left and the size of r
RectangleAt(r, top_left) ==
    LET rect == Annotations(r, USE_CENTER_POSITION).rectangle
    IN  /\ <<rect[1], rect[2]>> = top_left
        /\ <<rect[3] - rect[1], rect[4] - rect[2]>> = r.size

\* the rectangle of each matcher's candidate lies on the region the matcher
\* matched, and the drawn frame carries the rectangle of the returned result
\* in the colour its confidence selects
RectangleOnMatch ==
    /\ (SweepReturned /\ template_result # None)
          => RectangleAt(template_result,
                         trace[SetMax({i \in 1..Len(trace) : trace[i].recorded})].max_loc)
    /\ (OrbReturned /\ orb_result # None)
          => RectangleAt(orb_result, <<orb_locals.x_min, orb_locals.y_min>>)
    /\ Drawn
          => LET a == vis_image.annotations
             IN  /\ result \in Candidates
                 /\ a.rectangle = Annotations(result, USE_CENTER_POSITION).rectangle
                 /\ a.color \in {"green", "yellow"}
                 /\ a.color = "green"
                       <=> 10 * result.confidence.num > 8 * result.confidence.den

\* C23: visualize_detection leaves the result of detect, the engine and the
\* configuration as they are, and for a result of either matcher, in either
\* position mode, the rectangle it draws has its top-left corner at the
\* matched region's top-left and the size of the result; the rectangle is
\* green exactly when the confidence is above 0.8 and yellow otherwise.
C23_RectangleAtMatchedRegion ==
    [][/\ (vis_image = None /\ vis_image' # None)
             => UNCHANGED <<result, results, template, config_vars>>
       /\ RectangleOnMatch']_vars

\* a feature-matcher box of odd width, left of the frame, in centre mode
C23_Witness ==
    /\ OrbReturned
    /\ orb_result # None
    /\ USE_CENTER_POSITION
    /\ orb_result.size[1] % 2 = 1
    /\ orb_locals.x_min < 0
    /\ Annotations(orb_result, TRUE).rectangle[1] = orb_locals.x_min

\* a template result of odd width drawn in centre mode, in yellow at 0.8
C23_WitnessDrawn ==
    /\ Drawn
    /\ USE_CENTER_POSITION
    /\ result.method = "template"
    /\ result.size[1] % 2 = 1
    /\ RatEq(result.confidence, Rat(8, 10))
    /\ vis_image.annotations.color = "yellow"

(***************************************************************************)
(* The start and stop buttons                                              *)
(***************************************************************************)
\* C24: in every reachable state of the window the start button is enabled
\* only if an engine is loaded, a region is selected and detection is not
\* running, so no detection thread is ever started without a region or
\* without an engine.
C24_StartOnlyWhenReady ==
    /\ btn_start => CanStart(detector, roi, is_detecting)
    /\ detection_thread # None
          => detection_thread.roi # None /\ detection_thread.detector # None

\* the GUI thread is not inside a handler
BetweenHandlers == gui \in {"ready", "closed"}

\* is_detecting, the thread object and the two buttons agree
ButtonsAgree ==
    /\ is_detecting <=> detection_thread # None
    /\ btn_stop <=> is_detecting
    /\ ~(btn_start /\ btn_stop)

\* C25: between event handlers is_detecting holds exactly when a detection
\* thread object exists, the stop button is enabled exactly when is_detecting,
\* the two buttons are never both enabled, and there is at most one thread: a
\* thread is created only when none exists and none is in its loop, and while
\* detection goes on no handler replaces it.
C25_OneThreadButtonsAgree ==
    [][/\ BetweenHandlers' => ButtonsAgree'
       /\ (~is_detecting /\ is_detecting')
             => /\ detection_thread = None
                /\ ThreadAtLoopTop
                /\ detection_thread' # None
       /\ (is_detecting /\ is_detecting') => detection_thread' = detection_thread
       /\ (~is_detecting /\ ~is_detecting' /\ BetweenHandlers)
             => detection_thread' = None]_vars

\* detection is running, the thread is inside an iteration and the region of
\* the window has been changed since the start
C25_Witness ==
    /\ gui = "ready"
    /\ is_detecting
    /\ detection_thread # None
    /\ btn_stop
    /\ ~btn_start
    /\ pc = "orb_stage"
    /\ roi # detection_thread.roi

(***************************************************************************)
(* Stopping the thread and closing the window                              *)
(***************************************************************************)
\* stop() has been called on the thread
StopRequested == detection_thread # None /\ ~detection_thread.running

ThreadArguments(t) == <<t.detector, t.roi, t.use_template, t.use_orb>>

\* C28: a detection thread keeps the engine, the region and the two method
\* flags it was created with: no handler changes them while the thread
\* exists, and every iteration captures a frame of the thread's region and
\* calls the thread's engine with the thread's flags, whatever template and
\* region the window holds by then.
C28_ThreadKeepsItsArguments ==
    [][/\ (detection_thread # None /\ detection_thread' # None)
             => ThreadArguments(detection_thread') = ThreadArguments(detection_thread)
       /\ scene' # None
             => /\ detection_thread' # None
                /\ template' = detection_thread'.detector
                /\ detection_thread'.roi # None
                /\ scene'.w = detection_thread'.roi.width
                /\ scene'.h = detection_thread'.roi.height
                /\ use_template' = detection_thread'.use_template
                /\ use_orb' = detection_thread'.use_orb]_vars

\* the thread is inside an iteration on its own engine and region after the
\* window was given another template and another region
C28_Witness ==
    /\ scene # None
    /\ detection_thread # None
    /\ detector # None
    /\ detector # detection_thread.detector
    /\ roi # None
    /\ roi # detection_thread.roi
    /\ template = detection_thread.detector
    /\ scene.w = detection_thread.roi.width

(***************************************************************************)
(* Results in the window: offsets, last position, statistics               *)
(***************************************************************************)
\* the GUI thread handles the oldest queued signal in this step
Handles(name) ==
    /\ signals # <<>>
    /\ Head(signals).name = name
    /\ signals' = Tail(signals)

\* the position of the template result is the place the sweep found, shifted
\* to the centre in centre mode and by nothing else
PositionWithoutOffset ==
    (SweepReturned /\ template_result # None)
       => template_result.position =
              ReportedPosition(
                  trace[SetMax({i \in 1..Len(trace) : trace[i].recorded})].max_loc,
                  template_result.size)

\* C22: the engine never applies the offsets: the position of a template
\* result is the one the sweep found, whatever POSITION_OFFSET is.  Only
\* on_detection_result applies them, to a found result, as region origin +
\* result position + offset; a not-found result, a change of the offsets and
\* every other step leave the stored last position as it is.
C22_OffsetsAppliedByCallerOnly ==
    [][/\ PositionWithoutOffset'
       /\ Handles("result_ready")
             => LET r == Head(signals).result
                IN  IF r.found /\ roi # None
                    THEN last_monster_position' =
                             <<roi.x + r.position[1] + POSITION_OFFSET[1],
                               roi.y + r.position[2] + POSITION_OFFSET[2]>>
                    ELSE last_monster_position' = last_monster_position
       /\ ~Handles("result_ready")
             => last_monster_position' = last_monster_position]_vars

\* a found result at (8, 6) of the region was handled under offsets other
\* than zero, the statistics were reset, and a not-found result has been
\* handled since: the stored position is still the one of the found result
C22_Witness ==
    /\ POSITION_OFFSET # <<0, 0>>
    /\ roi # None
    /\ last_monster_position = AbsolutePosition(roi, <<8, 6>>, POSITION_OFFSET)
    /\ total_detections = 1
    /\ successful_detections = 0

\* C27 as stated: the position stored for a handled found result is the
\* origin of the region the result's frame was captured in, plus the result's
\* position, plus the offsets, whatever the window's region is by then.
C27_PositionFromFrameRegion ==
    [][(Handles("result_ready") /\ Head(signals).result.found)
          => last_monster_position' =
                 AbsolutePosition(Head(signals).frame_roi,
                                  Head(signals).result.position,
                                  POSITION_OFFSET)]_vars

\* C29: an iteration of the thread's loop either captures a frame, calls
\* detect once on it and emits one result_ready with the value detect
\* returned, or emits one error_occurred and no result; an error does not end
\* the loop.  Every handled result adds one to total_detections and one to
\* successful_detections exactly when found, an error adds nothing, so
\* 0 <= successful_detections <= total_detections, and reset_stats sets both
\* to zero.
C29_OneSignalPerIteration ==
    [][/\ (scene = None /\ scene' # None)
             => pc' = "template_stage" /\ signals' = signals
       /\ (scene # None /\ scene' # None) => Len(signals') <= Len(signals)
       /\ (scene # None /\ scene' = None /\ gui' = gui)
             => /\ pc = "idle" /\ result # None /\ vis_image # None
                /\ Len(signals') = Len(signals) + 1
                /\ signals'[Len(signals')].name = "result_ready"
                /\ signals'[Len(signals')].result = result
       /\ Len(signals') > Len(signals)
             => /\ signals' = Append(signals, signals'[Len(signals')])
                /\ signals'[Len(signals')].name = "error_occurred"
                      => /\ scene = None /\ scene' = None
                         /\ detection_thread' = detection_thread
                         /\ detection_thread.running
                /\ UNCHANGED <<total_detections, successful_detections>>
       /\ Handles("result_ready")
             => /\ total_detections' = total_detections + 1
                /\ successful_detections' =
                       successful_detections
                           + (IF Head(signals).result.found THEN 1 ELSE 0)
       /\ Handles("error_occurred")
             => UNCHANGED <<total_detections, successful_detections>>
       /\ (total_detections' # total_detections
             \/ successful_detections' # successful_detections)
             => \/ Handles("result_ready")
                \/ total_detections' = 0 /\ successful_detections' = 0
       /\ 0 <= successful_detections'
       /\ successful_detections' <= total_detections']_vars

\* a not-found result has been handled and counted, and an error of the
\* thread has been logged, with the thread still in its loop
C29_Witness ==
    /\ total_detections = 1
    /\ successful_detections = 0
    /\ log_error # None
    /\ log_error.source = "detection_thread"
    /\ detection_thread # None
    /\ detection_thread.running
    /\ scene # None

(***************************************************************************)
(* Selecting a region (ROIOverlayWidget) and ScreenCapture.capture_roi     *)
(***************************************************************************)
\* screen coordinates the mouse can be pressed and released at
PointSet == {<<x, y>> : x \in {0, 4, 9}, y \in {0, 5}}

\* regions a caller can pass to capture_roi
CaptureArguments ==
    {[x |-> 4, y |-> 0, width |-> w, height |-> h] : w \in {-5, 0, 5}, h \in {0, 5}}

\* an is_valid that accepts an empty region
IsValid_NonNegative(r) == r.width >= 0 /\ r.height >= 0

\* ROI.is_valid
IsValid(r) == r.width > 0 /\ r.height > 0

\* truth value of a point of the overlay: None is false, and so is the null
\* QPoint (0, 0)
PointTruthy(p) == p # <<>> /\ p # <<0, 0>>

\* the ROI mouseReleaseEvent builds from the two points
RoiOfPoints(p, q) ==
    LET x1 == IF p[1] <= q[1] THEN p[1] ELSE q[1]
        x2 == IF p[1] <= q[1] THEN q[1] ELSE p[1]
        y1 == IF p[2] <= q[2] THEN p[2] ELSE q[2]
        y2 == IF p[2] <= q[2] THEN q[2] ELSE p[2]
    IN  [x |-> x1, y |-> y1, width |-> x2 - x1, height |-> y2 - y1]

\* what the actions on the overlay and on the capture leave alone
window_rest == <<config_vars, call_vars, detector, roi, is_detecting,
                 detection_thread, btn_start, log_error, btn_stop, gui,
                 stats_vars, previous>>

\* the window as constructed (initialize() may have failed, which __init__
\* only logs) with the overlay of a selection shown: no point yet; <<>>
\* stands for None
InitRoi ==
    /\ TEMPLATE_THRESHOLD = DEFAULT_THRESHOLD
    /\ USE_CENTER_POSITION = TRUE
    /\ SCALES = <<16>>
    /\ USE_PREPROCESSING_ENHANCEMENT = TRUE
    /\ template = None
    /\ pc = "idle"
    /\ scene = None
    /\ use_template = FALSE
    /\ use_orb = FALSE
    /\ trace = <<>>
    /\ template_result = None
    /\ orb_locals = None
    /\ orb_result = None
    /\ results = <<>>
    /\ result = None
    /\ exception = None
    /\ scene_enhancement = None
    /\ vis_image = None
    /\ detector = None
    /\ roi = None
    /\ is_detecting = FALSE
    /\ detection_thread = None
    /\ btn_start = FALSE
    /\ log_error = None
    /\ btn_stop = FALSE
    /\ gui = "ready"
    /\ capture_initialized \in BOOLEAN
    /\ overlay = [start_point |-> <<>>, end_point |-> <<>>, selecting |-> FALSE,
                  roi_selected |-> <<>>, selection_cancelled |-> FALSE]
    /\ capture = None
    /\ POSITION_OFFSET = <<0, 0>>
    /\ signals = <<>>
    /\ last_monster_position = <<>>
    /\ total_detections = 0
    /\ successful_detections = 0
    /\ previous = None

\* the overlay is shown: nothing was emitted and it was not closed
OverlayOpen ==
    /\ overlay # None
    /\ overlay.roi_selected = <<>>
    /\ ~overlay.selection_cancelled

\* ROIOverlayWidget.mousePressEvent with the left button at p
MousePress(p) ==
    /\ OverlayOpen
    /\ overlay' = [overlay EXCEPT !.start_point = p, !.end_point = p,
                                  !.selecting = TRUE]
    /\ UNCHANGED <<window_rest, capture_initialized, capture>>

\* ROIOverlayWidget.mouseMoveEvent at p
MouseMove(p) ==
    /\ OverlayOpen
    /\ overlay.selecting
    /\ overlay' = [overlay EXCEPT !.end_point = p]
    /\ UNCHANGED <<window_rest, capture_initialized, capture>>

\* ROIOverlayWidget.mouseReleaseEvent with the left button at p: the region
\* is built if both points are true, and emitted, closing the overlay, if it
\* is valid
MouseRelease(p) ==
    /\ OverlayOpen
    /\ overlay.selecting
    /\ LET built == RoiOfPoints(overlay.start_point, p)
       IN  overlay' = [overlay EXCEPT
                          !.end_point = p,
                          !.selecting = FALSE,
                          !.roi_selected =
                              IF /\ PointTruthy(overlay.start_point)
                                 /\ PointTruthy(p)
                                 /\ IsValid(built)
                              THEN <<built>> ELSE <<>>]
    /\ UNCHANGED <<window_rest, capture_initialized, capture>>

\* ROIOverlayWidget.keyPressEvent with ESC: selection_cancelled, close
KeyEscape ==
    /\ OverlayOpen
    /\ overlay' = [overlay EXCEPT !.selection_cancelled = TRUE]
    /\ UNCHANGED <<window_rest, capture_initialized, capture>>

\* ScreenCapture.capture_roi(r): None before anything is captured when the
\* contexts are not initialised or the region is not valid; else the screen
\* is read and a frame, or None when BitBlt and the fallback both fail, is
\* returned
CaptureRoiCall(r) ==
    /\ \E failed \in BOOLEAN :
          capture' = IF ~capture_initialized \/ ~IsValid(r)
                     THEN [roi |-> r, blitted |-> FALSE, returned |-> <<>>]
                     ELSE [roi |-> r, blitted |-> TRUE,
                           returned |-> IF failed THEN <<>>
                                        ELSE <<[w |-> r.width, h |-> r.height]>>]
    /\ UNCHANGED <<window_rest, capture_initialized, overlay>>

NextRoi ==
    \/ \E p \in PointSet : MousePress(p)
    \/ \E p \in PointSet : MouseMove(p)
    \/ \E p \in PointSet : MouseRelease(p)
    \/ KeyEscape
    \/ \E r \in CaptureArguments : CaptureRoiCall(r)

SpecRoi == InitRoi /\ [][NextRoi]_vars

\* C30: a selection ends with no region (cancelled) or with a valid one: the
\* region delivered has x and y equal to the smaller coordinates of the press
\* and release points, width and height equal to the absolute differences,
\* both above zero, so a drag of zero width or height never completes; and
\* capture_roi returns None without reading the screen when the capture is
\* not initialised or the region is not valid, and a frame of the region's
\* size otherwise unless the capture failed.
C30_SelectionGivesValidRoiOrNone ==
    /\ overlay # None
          => /\ ~(overlay.roi_selected # <<>> /\ overlay.selection_cancelled)
             /\ overlay.roi_selected # <<>>
                   => LET r == overlay.roi_selected[1]
                          p == overlay.start_point
                          q == overlay.end_point
                      IN  /\ r.x = SetMin({p[1], q[1]})
                          /\ r.y = SetMin({p[2], q[2]})
                          /\ r.width = SetMax({p[1] - q[1], q[1] - p[1]})
                          /\ r.height = SetMax({p[2] - q[2], q[2] - p[2]})
                          /\ r.width > 0
                          /\ r.height > 0
             /\ (/\ overlay.start_point # <<>>
                 /\ ~overlay.selecting
                 /\ \/ overlay.start_point[1] = overlay.end_point[1]
                    \/ overlay.start_point[2] = overlay.end_point[2])
                   => overlay.roi_selected = <<>>
    /\ capture # None
          => /\ (~capture_initialized \/ capture.roi.width <= 0 \/ capture.roi.height <= 0)
                   => capture.returned = <<>> /\ ~capture.blitted
             /\ capture.returned # <<>>
                   => /\ capture.blitted
                      /\ capture.returned[1] = [w |-> capture.roi.width,
                                                h |-> capture.roi.height]

\* a drag from the lower right to the upper left was delivered, and
\* capture_roi has refused a region of zero height
C30_Witness ==
    /\ overlay.roi_selected # <<>>
    /\ overlay.start_point[1] > overlay.end_point[1]
    /\ overlay.start_point[2] > overlay.end_point[2]
    /\ overlay.roi_selected[1] = [x |-> 4, y |-> 0, width |-> 5, height |-> 5]
    /\ capture # None
    /\ capture_initialized
    /\ capture.roi.height = 0
    /\ capture.returned = <<>>

====
